---- MODULE Spec2Model ----
(***************************************************************************)
(* Session registry of the voice assistant server (src/server.py).         *)
(*                                                                         *)
(* pcs_map maps a pc_id to a SmallWebRTCConnection.  /api/offer either     *)
(* renegotiates the connection registered under the requested pc_id or     *)
(* creates a new one; the connection's "closed" event pops its entry; the  *)
(* lifespan context manager disconnects every connection and clears the    *)
(* map.  offer is a coroutine: it is suspended in renegotiate/initialize   *)
(* and everything between two awaits runs as one step of the event loop.   *)
(*                                                                         *)
(* The transport (pipecat's SmallWebRTCConnection) is the environment: a   *)
(* connection is given its pc_id when it is constructed and keeps it, its  *)
(* initialize/renegotiate/disconnect calls return or raise, and it emits   *)
(* "closed" once, some time after it has closed.                           *)
(***************************************************************************)
EXTENDS Integers, FiniteSets, Sequences, Bags, TLC

\* Number of connection objects offer may construct in one run.
MaxConns == 3
\* Number of /api/offer requests that may be in flight at the same time.
MaxTasks == 2

Conns == 1..MaxConns

\* request.get("pc_id") of a request without the key.
None == <<>>
\* A pc_id that no connection ever reported.
ForeignIds == {<<"foreign">>}

VARIABLES
    pcs_map,      \* pc_id -> connection (a function on the set of its keys)
    nconn,        \* connection objects constructed so far
    pc_id,        \* connection -> the pc_id it reports
    connState,    \* connection -> "none" | "negotiating" | "active" | "closed" | "failed"
    handler,      \* connection -> handle_disconnected is registered for "closed"
    notify,       \* connection -> a "closed" event is emitted and not yet handled
    botScheduled, \* connection -> number of run_bot tasks added for it
    tasks,        \* the bag of suspended offer coroutines: where, its request, its connection
    last,         \* the offer that returned most recently
    removeLog,    \* the most recent pop of handle_disconnected
    lifespanPc,   \* position of the lifespan context manager
    coros,        \* connections whose disconnect() lifespan gathered
    pending,      \* gathered disconnects that have not settled
    exited,       \* the server process has left uvicorn.run
    files,        \* tools directory: file -> what executing it gives
    sys_modules,  \* file -> the module object kept for it, if any
    cache,        \* _schemas, _handlers, _tool_modules of tools/register.py
    discoveries,  \* runs of discover_tools so far
    accesses,     \* calls of the registry's functions from outside run_bot so far
    reloads,      \* calls of reload_tools so far
    lastRet,      \* what the most recent call of the registry worked on
    heap,         \* the schema list objects discover_tools has created, by pass
    bots,         \* run_bot invocation -> its pipeline task, tools and tool call
    hcall,        \* the tool call a handler is running: tool, arguments, environment
    hpc,          \* where the handler is
    sink,         \* the invocations of params.result_callback of this call
    inserted      \* the bodies of events().insert(...).execute() of this call

registryVars == <<files, sys_modules, cache, discoveries, accesses, reloads,
                  lastRet, heap>>
agentVars == <<bots>>
handlerVars == <<hcall, hpc, sink, inserted>>
toolVars == <<registryVars, handlerVars, agentVars>>

vars == <<pcs_map, nconn, pc_id, connState, handler, notify, botScheduled,
          tasks, last, removeLog, lifespanPc, coros, pending, exited,
          files, sys_modules, cache, discoveries, accesses, reloads, lastRet,
          heap, bots,
          hcall, hpc, sink, inserted>>

sessionVars == <<pcs_map, nconn, pc_id, connState, handler, notify,
                 botScheduled, tasks, last, removeLog, lifespanPc, coros,
                 pending, exited>>

connVars == <<nconn, pc_id, connState, handler, notify, botScheduled>>
lifespanVars == <<lifespanPc, coros, pending, exited>>

----------------------------------------------------------------------------
(* dict operations on pcs_map *)

EmptyMap == [k \in {} |-> 0]

Keys(m) == DOMAIN m

Values(m) == {m[k] : k \in DOMAIN m}

\* pcs_map[key] = c
SetItem(m, key, c) == [k \in (DOMAIN m) \cup {key} |-> IF k = key THEN c ELSE m[k]]

\* pcs_map.pop(key): raises KeyError when the key is absent.
PopStrict(m, key) ==
    IF key \in DOMAIN m
    THEN [map |-> [k \in (DOMAIN m) \ {key} |-> m[k]], raised |-> FALSE]
    ELSE [map |-> m, raised |-> TRUE]

\* pcs_map.pop(key, None): removes the key when present, never raises.
Pop(m, key) ==
    [map |-> [k \in (DOMAIN m) \ {key} |-> m[k]], raised |-> FALSE]

\* pcs_map.clear()
Clear(m) == EmptyMap

----------------------------------------------------------------------------
(* the transport's connection objects *)

\* A constructor that hands every connection the same pc_id.
SamePcId(c) == <<"pc", 1>>

\* SmallWebRTCConnection(ice_servers): the pc_id of the c-th object.
NewPcId(c) == <<"pc", c>>

\* pipecat_connection.get_answer()
GetAnswer(c) == [pc_id |-> pc_id[c]]

IssuedIds == {pc_id[c] : c \in {d \in Conns : handler[d]}}

\* The pc_id values a client can put in a request.
RequestIds == {None} \cup IssuedIds \cup ForeignIds

\* The "closed" event of c has been handled: the session is closed.
Removed(c) == connState[c] = "closed" /\ handler[c] /\ ~notify[c]

NoOffer == [req |-> None, branch |-> "none", conn |-> 0, answer |-> None,
            key |-> None, bots |-> 0, streak |-> 0, same |-> TRUE]

AllIdle == tasks = EmptyBag

\* A further request can be accepted.
CanAccept == BagCardinality(tasks) < MaxTasks

Serving == lifespanPc = "serving" /\ ~exited

----------------------------------------------------------------------------
SessionInit ==
    /\ pcs_map = EmptyMap
    /\ nconn = 0
    /\ pc_id = [c \in Conns |-> None]
    /\ connState = [c \in Conns |-> "none"]
    /\ handler = [c \in Conns |-> FALSE]
    /\ notify = [c \in Conns |-> FALSE]
    /\ botScheduled = [c \in Conns |-> 0]
    /\ tasks = EmptyBag
    /\ last = NoOffer
    /\ removeLog = [hit |-> "none", raised |-> FALSE, changed |-> FALSE]
    /\ lifespanPc = "serving"
    /\ coros = {}
    /\ pending = {}
    /\ exited = FALSE

----------------------------------------------------------------------------
(* POST /api/offer *)

\* if pc_id and pc_id in pcs_map
ReuseBranch(req, m) == req # None /\ req \in Keys(m)

\* A lookup that returns some registered connection, whatever the key.
LookupAny(m, req) == m[CHOOSE k \in DOMAIN m : \A j \in DOMAIN m : m[k] <= m[j]]

\* pipecat_connection = pcs_map[pc_id]
Lookup(m, req) == m[req]

\* Registering under the pc_id the caller sent, when it sent one.
RequestKey(req, c) == IF req # None THEN req ELSE GetAnswer(c).pc_id

\* pcs_map[answer["pc_id"]] = pipecat_connection: the key that is written.
InsertKey(req, c) == GetAnswer(c).pc_id

\* background_tasks.add_task(run_bot, ...) on both branches.
BotsAlways(branch) == 1

\* background_tasks.add_task(run_bot, pipecat_connection) is in the else branch.
BotsAdded(branch) == IF branch = "new" THEN 1 ELSE 0

\* The returning offer took the reuse branch for the same pc_id as the
\* offer that returned before it.
Repeats(branch, req) == branch = "reuse" /\ last.branch = "reuse" /\ last.req = req

\* How many offers in a row (counted up to 2) reused the same pc_id.
Streak(branch, req) ==
    IF branch # "reuse" THEN 0
    ELSE IF Repeats(branch, req) THEN 2 ELSE 1

\* Lines 208-212: get_answer, the write to pcs_map, return answer.
Respond(t, branch) ==
    LET c == t.conn
        req == t.req
        answer == GetAnswer(c)
        key == InsertKey(req, c)
    IN /\ pcs_map' = SetItem(pcs_map, key, c)
       /\ botScheduled' = [botScheduled EXCEPT ![c] = @ + BotsAdded(branch)]
       /\ last' = [req |-> req, branch |-> branch, conn |-> c,
                   answer |-> answer.pc_id, key |-> key,
                   bots |-> BotsAdded(branch), streak |-> Streak(branch, req),
                   same |-> Repeats(branch, req) =>
                                (c = last.conn /\ answer.pc_id = last.answer)]
       /\ tasks' = tasks (-) SetToBag({t})

\* Lines 191-196: the request names a key of pcs_map; offer is suspended in
\* renegotiate on the connection registered under it.
OfferReuse(req) ==
    /\ Serving
    /\ CanAccept
    /\ req \in RequestIds
    /\ ReuseBranch(req, pcs_map)
    /\ req \in Keys(pcs_map)
    /\ LET c == Lookup(pcs_map, req)
       IN tasks' = tasks (+) SetToBag({[pc |-> "renegotiate", req |-> req,
                                        conn |-> c, stale |-> Removed(c)]})
    /\ UNCHANGED toolVars
    /\ UNCHANGED <<pcs_map, connVars, last, removeLog, lifespanVars>>

\* Lines 191-199: any other request constructs a connection; offer is
\* suspended in initialize.
OfferNew(req) ==
    /\ Serving
    /\ CanAccept
    /\ req \in RequestIds
    /\ ~ReuseBranch(req, pcs_map)
    /\ nconn < MaxConns
    /\ LET c == nconn + 1
       IN /\ nconn' = c
          /\ pc_id' = [pc_id EXCEPT ![c] = NewPcId(c)]
          /\ connState' = [connState EXCEPT ![c] = "negotiating"]
          /\ tasks' = tasks (+) SetToBag({[pc |-> "initialize", req |-> req,
                                           conn |-> c, stale |-> FALSE]})
    /\ UNCHANGED toolVars
    /\ UNCHANGED <<pcs_map, handler, notify, botScheduled, last, removeLog,
                   lifespanVars>>

\* renegotiate returns: lines 208-212.
RenegotiateReturn(t) ==
    /\ t.pc = "renegotiate"
    /\ Respond(t, "reuse")
    /\ UNCHANGED toolVars
    /\ UNCHANGED <<nconn, pc_id, connState, handler, notify, removeLog,
                   lifespanVars>>

\* renegotiate raises: offer ends with the exception.
RenegotiateRaise(t) ==
    /\ t.pc = "renegotiate"
    /\ tasks' = tasks (-) SetToBag({t})
    /\ UNCHANGED toolVars
    /\ UNCHANGED <<pcs_map, connVars, last, removeLog, lifespanVars>>

\* initialize returns: lines 201-212.
InitializeReturn(t) ==
    /\ t.pc = "initialize"
    /\ connState' = [connState EXCEPT ![t.conn] = "active"]
    /\ handler' = [handler EXCEPT ![t.conn] = TRUE]
    /\ Respond(t, "new")
    /\ UNCHANGED toolVars
    /\ UNCHANGED <<nconn, pc_id, notify, removeLog, lifespanVars>>

\* initialize raises: offer ends with the exception, the object is dropped.
InitializeRaise(t) ==
    /\ t.pc = "initialize"
    /\ connState' = [connState EXCEPT ![t.conn] = "failed"]
    /\ tasks' = tasks (-) SetToBag({t})
    /\ UNCHANGED toolVars
    /\ UNCHANGED <<pcs_map, nconn, pc_id, handler, notify, botScheduled, last,
                   removeLog, lifespanVars>>

----------------------------------------------------------------------------
(* the "closed" event *)

\* The event loop still runs callbacks.
LoopRunning == ~exited \/ lifespanPc \in {"gather", "raised"}

\* The transport closes an established connection and emits "closed".
TransportClose(c) ==
    /\ LoopRunning
    /\ connState[c] = "active"
    /\ connState' = [connState EXCEPT ![c] = "closed"]
    /\ notify' = [notify EXCEPT ![c] = handler[c]]
    /\ UNCHANGED toolVars
    /\ UNCHANGED <<pcs_map, nconn, pc_id, handler, botScheduled, tasks, last,
                   removeLog, lifespanVars>>

\* Lines 202-204: the body of handle_disconnected(webrtc_connection).
Discard(c) ==
    LET key == pc_id[c]
        r == Pop(pcs_map, key)
    IN /\ pcs_map' = r.map
       /\ removeLog' = [hit |-> IF key \in Keys(pcs_map) THEN "present" ELSE "absent",
                        raised |-> r.raised, changed |-> r.map # pcs_map]

\* The "closed" event of c reaches handle_disconnected.
HandleDisconnected(c) ==
    /\ LoopRunning
    /\ notify[c]
    /\ Discard(c)
    /\ notify' = [notify EXCEPT ![c] = FALSE]
    /\ UNCHANGED toolVars
    /\ UNCHANGED <<nconn, pc_id, connState, handler, botScheduled, tasks, last,
                   lifespanVars>>

\* handle_disconnected called directly, as a caller of remove(id) does, with
\* a connection whose "closed" event it has handled already (a second
\* removal) or with one it was never registered for (an id never issued),
\* while no offer is in flight.
DirectRemove(c) ==
    /\ ~exited
    /\ AllIdle
    /\ c \in 1..nconn
    /\ \E d \in Conns : handler[d]
    /\ Removed(c) \/ ~handler[c]
    /\ Discard(c)
    /\ UNCHANGED toolVars
    /\ UNCHANGED <<connVars, tasks, last, lifespanVars>>

----------------------------------------------------------------------------
(* process exit and lifespan *)

\* app = FastAPI(): no lifespan argument is passed.
AppLifespan == FALSE

\* The server stops once the requests in flight have returned; the
\* application's lifespan context, when it has one, runs its exit part:
\* line 223, and the gather of line 224 starts every disconnect.
Exit(registered) ==
    /\ Serving
    /\ AllIdle
    /\ exited' = TRUE
    /\ IF registered
       THEN /\ lifespanPc' = "gather"
            /\ coros' = Values(pcs_map)
            /\ pending' = Values(pcs_map)
       ELSE UNCHANGED <<lifespanPc, coros, pending>>
    /\ UNCHANGED toolVars
    /\ UNCHANGED <<pcs_map, connVars, tasks, last, removeLog>>

\* uvicorn.run(app, ...) returns.
ProcessExit == Exit(AppLifespan)

\* The exit part of lifespan entered as the application's lifespan.
LifespanExit == Exit(TRUE)

\* gather(*coros, return_exceptions=True): a failure is a result.
GatherCollects(pc) == pc

\* asyncio.gather(*coros): the first exception is raised to the awaiter.
GatherOnRaise(pc) == IF pc = "gather" THEN "raised" ELSE pc

\* pc.disconnect() returns: the connection is closed and emits "closed".
DisconnectReturn(c) ==
    /\ lifespanPc \in {"gather", "raised"}
    /\ c \in pending
    /\ pending' = pending \ {c}
    /\ connState' = [connState EXCEPT ![c] = "closed"]
    /\ notify' = [notify EXCEPT ![c] = IF connState[c] = "active" THEN handler[c] ELSE @]
    /\ UNCHANGED toolVars
    /\ UNCHANGED <<pcs_map, nconn, pc_id, handler, botScheduled, tasks, last,
                   removeLog, lifespanPc, coros, exited>>

\* pc.disconnect() raises.
DisconnectRaise(c) ==
    /\ lifespanPc \in {"gather", "raised"}
    /\ c \in pending
    /\ pending' = pending \ {c}
    /\ lifespanPc' = GatherOnRaise(lifespanPc)
    /\ UNCHANGED toolVars
    /\ UNCHANGED <<pcs_map, connVars, tasks, last, removeLog, coros, exited>>

\* Lines 224-225: gather returns, pcs_map.clear().
GatherReturn ==
    /\ lifespanPc = "gather"
    /\ pending = {}
    /\ pcs_map' = Clear(pcs_map)
    /\ lifespanPc' = "done"
    /\ UNCHANGED toolVars
    /\ UNCHANGED <<connVars, tasks, last, removeLog, coros, pending, exited>>

----------------------------------------------------------------------------
(* tools/register.py: discovery of the tool modules and its cache *)

\* Number of tool module files in the tools directory.
MaxSources == 2
\* Number of calls of the registry's functions in one run.
MaxAccesses == 2

Files == 1..MaxSources

\* Names a module can declare as FUNCTION_NAME or CREATE_FUNCTION_NAME.
Names == {"a", "b", "c"}
\* A name a SCHEMA carries when it is not the declared FUNCTION_NAME.
OtherName == "x"
\* The module has no CREATE_SCHEMA, CREATE_HANDLER, CREATE_FUNCTION_NAME.
NoCreate == "none"

\* What a file of the tools directory is: its import raises (imp = FALSE), or
\* it lacks one of SCHEMA, handler, FUNCTION_NAME, or it has all three, with
\* FUNCTION_NAME fn, SCHEMA.name sn and, when create is a name, the three
\* CREATE_ attributes for that name.
SourceKinds ==
    {[imp |-> FALSE, missing |-> "none", fn |-> "a", sn |-> "a", create |-> NoCreate]}
    \cup {[imp |-> TRUE, missing |-> m, fn |-> "a", sn |-> "a", create |-> NoCreate] :
             m \in {"SCHEMA", "handler", "FUNCTION_NAME"}}
    \cup {[imp |-> TRUE, missing |-> "none", fn |-> n, sn |-> n, create |-> c] :
             n \in Names, c \in Names \cup {NoCreate}}
    \cup {[imp |-> TRUE, missing |-> "none", fn |-> n, sn |-> OtherName,
           create |-> NoCreate] : n \in Names}

\* A Python name bound to None, or to a value.
PyNone == [some |-> FALSE]
Some(v) == [some |-> TRUE, val |-> v]

\* _schemas = None; _handlers = None; _tool_modules = None
EmptyCache == [schemas |-> PyNone, handlers |-> PyNone, modules |-> PyNone]

\* A check that does not ask for the handler attribute.
HasSchemaAndName(src) == src.missing \notin {"SCHEMA", "FUNCTION_NAME"}

\* hasattr(module, 'SCHEMA') and hasattr(module, 'handler') and
\* hasattr(module, 'FUNCTION_NAME')
HasRequired(src) == src.missing = "none"

\* A loop body without the block for additional functions.
NoSecondary(src) == FALSE

\* hasattr(module, 'CREATE_SCHEMA') and ... 'CREATE_HANDLER' and
\* ... 'CREATE_FUNCTION_NAME'
HasCreate(src) == src.create # NoCreate

\* Lines 24-47: the body of the loop for one file.  Every exception raised
\* in it is caught and logged; what was appended before it stays.
LoadModule(f, src, acc) ==
    IF ~src.imp THEN acc
    ELSE IF ~HasRequired(src) THEN acc
    ELSE IF src.missing \in {"FUNCTION_NAME", "SCHEMA"} THEN acc
    ELSE
      LET a1 == [acc EXCEPT !.schemas =
                    Append(@, [name |-> src.sn, file |-> f, slot |-> "SCHEMA"])]
          a2 == [a1 EXCEPT
                    !.handlers = SetItem(@, src.fn, [file |-> f, attr |-> "handler"]),
                    !.modules = @ \cup {f}]
          a3 == [a2 EXCEPT
                    !.schemas = Append(@, [name |-> src.create, file |-> f,
                                           slot |-> "CREATE_SCHEMA"]),
                    !.handlers = SetItem(@, src.create,
                                         [file |-> f, attr |-> "CREATE_HANDLER"])]
      IN IF src.missing = "handler" THEN a1
         ELSE IF HasCreate(src) THEN a3 ELSE a2

RECURSIVE DiscoverFrom(_, _, _)
DiscoverFrom(listing, fs, acc) ==
    IF listing = <<>> THEN acc
    ELSE DiscoverFrom(Tail(listing), fs, LoadModule(Head(listing), fs[Head(listing)], acc))

\* discover_tools() when os.listdir gives the files in the order of listing.
DiscoverTools(listing, fs) ==
    DiscoverFrom(listing, fs, [schemas |-> <<>>, handlers |-> EmptyMap, modules |-> {}])

\* The orders in which os.listdir can give the files.
Listings == {l \in [1..MaxSources -> Files] : \A i, j \in 1..MaxSources : l[i] = l[j] => i = j}

\* A test that rediscovers on every call.
AlwaysLoad(c) == TRUE

\* if _schemas is None or _handlers is None or _tool_modules is None
NeedsLoad(c) == ~c.schemas.some \/ ~c.handlers.some \/ ~c.modules.some

\* importlib.import_module: the module object of sys.modules when the file
\* was imported before, the file as it is now otherwise.
ImportModule(mods, fs) == [f \in Files |-> IF mods[f].some THEN mods[f].val ELSE fs[f]]

\* sys.modules after every file was imported: a module whose import raised
\* is not kept.
Imported(mods, fs) ==
    [f \in Files |-> IF ImportModule(mods, fs)[f].imp
                     THEN Some(ImportModule(mods, fs)[f]) ELSE PyNone]

\* _ensure_tools_loaded() on cache c, with listing the order of os.listdir
\* if it discovers and fs the files then.
EnsureToolsLoaded(c, listing, fs) ==
    IF NeedsLoad(c)
    THEN LET d == DiscoverTools(listing, ImportModule(sys_modules, fs))
         IN /\ cache' = [schemas |-> Some(d.schemas), handlers |-> Some(d.handlers),
                         modules |-> Some(d.modules)]
            /\ sys_modules' = Imported(sys_modules, fs)
            /\ discoveries' = discoveries + 1
    ELSE /\ cache' = c
         /\ UNCHANGED <<sys_modules, discoveries>>

\* schemas = [] of a discovery that ran in this step is a new list object;
\* the objects of h stay as they are.
Allocated(h) ==
    IF discoveries' > discoveries THEN Append(h, cache'.schemas.val) ELSE h

\* One call of an accessor: lines 65, 70, 81 and what the accessor then reads.
Access(fn) ==
    /\ accesses < MaxAccesses
    /\ \E listing \in IF NeedsLoad(cache) THEN Listings ELSE {<<>>} :
          EnsureToolsLoaded(cache, listing, files)
    /\ accesses' = accesses + 1
    /\ lastRet' = [fn |-> fn, ran |-> NeedsLoad(cache),
                   schemas |-> cache'.schemas.val, handlers |-> cache'.handlers.val]
    /\ heap' = Allocated(heap)
    /\ UNCHANGED <<files, reloads, handlerVars, agentVars, sessionVars>>

\* get_tools_schema()
GetToolsSchema == Access("get_tools_schema")

\* register_functions(llm_service)
RegisterFunctions == Access("register_functions")

\* get_available_tools()
GetAvailableTools == Access("get_available_tools")

NoRet == [fn |-> "none", ran |-> FALSE, schemas |-> <<>>, handlers |-> EmptyMap]

\* A file that was edited so that executing it raises.
Broken == [imp |-> FALSE, missing |-> "none", fn |-> "a", sn |-> "a", create |-> NoCreate]

\* A reset that empties the list objects in place.
ClearedInPlace(h) == [i \in DOMAIN h |-> <<>>]

\* _schemas = None: the name is bound to None, the list objects stay as
\* they are.
Rebound(h) == h

\* reload_tools() after the files of edited were broken: the three globals
\* are set to None, every file that is in sys.modules is reloaded, and an
\* importlib.reload that raises ends the call there; otherwise the tools
\* are rediscovered.
ReloadTools ==
    \E listing \in Listings, edited \in SUBSET Files :
        /\ accesses < MaxAccesses
        /\ files' = [f \in Files |-> IF f \in edited THEN Broken ELSE files[f]]
        /\ IF \E f \in Files : sys_modules[f].some /\ ~files'[f].imp
           THEN /\ cache' = EmptyCache
                /\ lastRet' = [NoRet EXCEPT !.fn = "reload_tools raised"]
                /\ UNCHANGED <<sys_modules, discoveries>>
           ELSE /\ EnsureToolsLoaded(EmptyCache, listing, files')
                /\ lastRet' = [fn |-> "reload_tools", ran |-> TRUE,
                               schemas |-> cache'.schemas.val,
                               handlers |-> cache'.handlers.val]
        /\ heap' = Allocated(Rebound(heap))
        /\ accesses' = accesses + 1
        /\ reloads' = reloads + 1
        /\ UNCHANGED <<handlerVars, agentVars, sessionVars>>

\* register.py is imported: nothing is cached.
RegistryIdle ==
    /\ sys_modules = [f \in Files |-> PyNone]
    /\ cache = EmptyCache
    /\ discoveries = 0
    /\ accesses = 0
    /\ reloads = 0
    /\ heap = <<>>
    /\ lastRet = NoRet

----------------------------------------------------------------------------
(* the tool handlers: tools/weather.py, time.py, date.py, calendar.py *)

\* Last day number an explicit date argument can name; "now" is on day 1.
MaxDay == 2

Days == 0..MaxDay

\* A dict passed to params.result_callback: the value of its "status" key
\* ("none" when the dict has no such key) and which dict literal it is.
Result(status, tag) == [status |-> status, tag |-> tag]

\* A time argument as the caller writes it, "h:mm AM": hour, minute, half.
TimeStrings == {[h |-> h, m |-> m, p |-> p] :
                   h \in {1, 11, 12, 13}, m \in {0, 30}, p \in {"AM", "PM"}}

\* params.arguments.get(...) gives None: the argument is absent.
Absent == [h |-> 0, m |-> 0, p |-> "absent"]

\* A date argument: 'today', 'tomorrow', a date of day d written YYYY-MM-DD
\* or DD-MM-YYYY, or some other text.
DateStrings ==
    {[kind |-> k, day |-> 0] : k \in {"today", "tomorrow", "other"}}
    \cup {[kind |-> k, day |-> d] : k \in {"ymd", "dmy"}, d \in Days}

\* datetime.now(ist): day number and minute of the day.
Nows == {[day |-> 1, min |-> m] : m \in {30, 12 * 60, 23 * 60 + 30}}

\* The calls a handler can get, each with the faults of its environment: the
\* Google libraries are importable (google), the token file fails to load
\* (credsFail), the Calendar API call raises (apiFail), the timezone fails
\* to load (tzFail).
WeatherCalls == {[tool |-> "get_weather", unit |-> u] : u \in {"celsius", "fahrenheit"}}

TimeCalls == {[tool |-> "get_current_time", tzFail |-> f] : f \in BOOLEAN}

\* Largest number of days a days_offset argument moves the date.
MaxOffset == 5

\* datetime.now(ist).date() when get_date_info is called: year, month, day.
Todays ==
    {[y |-> 2023, m |-> 12, d |-> 29], [y |-> 2024, m |-> 1, d |-> 10],
     [y |-> 2024, m |-> 2, d |-> 27], [y |-> 2024, m |-> 3, d |-> 2]}

\* days_offset is an integer n, or a value timedelta(days=...) rejects.
DateCalls ==
    {[tool |-> "get_date_info", query_type |-> q, offset |-> [int |-> i, n |-> n],
      tzFail |-> f, now |-> t] :
        q \in {"today", "tomorrow", "yesterday", "days_from_now", "date_format"},
        i \in BOOLEAN, n \in -MaxOffset..MaxOffset, f \in BOOLEAN, t \in Todays}

FetchCalls ==
    {[tool |-> "fetch_calendar_events", google |-> g, credsFail |-> c,
      apiFail |-> a, date_query |-> d, events |-> n] :
        g \in BOOLEAN, c \in BOOLEAN, a \in BOOLEAN, d \in DateStrings, n \in {0, 1}}

CreateCalls ==
    {[tool |-> "create_calendar_event", google |-> g, credsFail |-> c,
      apiFail |-> a, summary |-> s, start_time |-> st, end_time |-> et,
      date |-> d, now |-> n] :
        g \in BOOLEAN, c \in BOOLEAN, a \in BOOLEAN, s \in BOOLEAN,
        st \in TimeStrings \cup {Absent}, et \in TimeStrings \cup {Absent},
        d \in DateStrings, n \in Nows}

Calls == WeatherCalls \cup TimeCalls \cup DateCalls \cup FetchCalls \cup CreateCalls

\* Where a handler stands at its first await of result_callback: outside the
\* try ("cb_plain"), inside it ("cb_try") or in the except clause
\* ("cb_except"), with the dict it passes and the event bodies it has sent
\* to events().insert.
Stage(at, result, bodies) == [at |-> at, result |-> result, bodies |-> bodies]

\* The dict of the except clause of each handler.
ErrorResult(tool) ==
    CASE tool = "get_weather" -> Result("none", "weather_error")
      [] tool = "get_current_time" -> Result("none", "time_error")
      [] tool = "get_date_info" -> Result("none", "date_error")
      [] tool = "fetch_calendar_events" -> Result("error", "calendar_trouble")
      [] tool = "create_calendar_event" -> Result("error", "create_failed")

\* weather.py lines 27-56.
WeatherHandler(call) == Stage("cb_try", Result("none", "weather_data"), <<>>)

\* time.py lines 17-36.
TimeHandler(call) ==
    IF call.tzFail THEN Stage("cb_except", ErrorResult(call.tool), <<>>)
    ELSE Stage("cb_try", Result("none", "time_data"), <<>>)

\* The names strftime gives for %B and %A.
MonthNames ==
    <<"January", "February", "March", "April", "May", "June", "July",
      "August", "September", "October", "November", "December">>

DayNames ==
    <<"Monday", "Tuesday", "Wednesday", "Thursday", "Friday", "Saturday",
      "Sunday">>

\* The years a date of the model can fall in.
Years == 2023..2025

IsLeap(y) == y % 4 = 0 /\ (y % 100 # 0 \/ y % 400 = 0)

DaysInMonth(y, m) ==
    IF m = 2 THEN (IF IsLeap(y) THEN 29 ELSE 28)
    ELSE IF m \in {4, 6, 9, 11} THEN 30 ELSE 31

RECURSIVE DaysBeforeMonth(_, _)
DaysBeforeMonth(y, m) ==
    IF m = 1 THEN 0 ELSE DaysBeforeMonth(y, m - 1) + DaysInMonth(y, m - 1)

DaysBeforeYear(y) ==
    (y - 1) * 365 + ((y - 1) \div 4) - ((y - 1) \div 100) + ((y - 1) \div 400)

\* date.toordinal(): the day number in the proleptic Gregorian calendar.
ToOrdinal(dt) == DaysBeforeYear(dt.y) + DaysBeforeMonth(dt.y, dt.m) + dt.d

\* date.fromordinal(n)
FromOrdinal(n) ==
    LET y == CHOOSE yy \in Years :
                 DaysBeforeYear(yy) < n /\ n <= DaysBeforeYear(yy + 1)
        r == n - DaysBeforeYear(y)
        m == CHOOSE mm \in 1..12 :
                 /\ DaysBeforeMonth(y, mm) < r
                 /\ r <= DaysBeforeMonth(y, mm) + DaysInMonth(y, mm)
    IN [y |-> y, m |-> m, d |-> r - DaysBeforeMonth(y, m)]

\* A sum that goes the other way.
MinusDays(dt, n) == FromOrdinal(ToOrdinal(dt) - n)

\* now + timedelta(days=n): n days on the day number, the clock time kept.
PlusDays(dt, n) == FromOrdinal(ToOrdinal(dt) + n)

\* target_date.strftime("%B %d, %Y")
FormatDate(dt) == [month |-> MonthNames[dt.m], day |-> dt.d, year |-> dt.y]

\* target_date.strftime("%A"): weekday() is (toordinal() + 6) % 7, Monday 0.
FormatDay(dt) == DayNames[((ToOrdinal(dt) + 6) % 7) + 1]

\* Lines 38-47: the target date of the query.
TargetDate(call) ==
    CASE call.query_type = "tomorrow" -> PlusDays(call.now, 1)
      [] call.query_type = "yesterday" -> PlusDays(call.now, -1)
      [] call.query_type = "days_from_now" -> PlusDays(call.now, call.offset.n)
      [] OTHER -> call.now

\* Lines 60-67: the description sentence: which wording, the number of days
\* it names, and the day name and date it combines.
Description(call, dt) ==
    LET n == call.offset.n
        how == IF call.query_type = "days_from_now" /\ n # 0
               THEN (IF n > 0 THEN "In n days, it will be" ELSE "n days ago was")
               ELSE "The date is"
        days == IF how = "The date is" THEN 0 ELSE IF n > 0 THEN n ELSE -n
    IN [how |-> how, days |-> days, day |-> FormatDay(dt), date |-> FormatDate(dt)]

\* date.py lines 29-69: timedelta(days=days_offset) is evaluated for
\* days_from_now only.
DateHandler(call) ==
    IF call.tzFail \/ (call.query_type = "days_from_now" /\ ~call.offset.int)
    THEN Stage("cb_except", ErrorResult(call.tool), <<>>)
    ELSE LET dt == TargetDate(call)
         IN Stage("cb_try",
                  [status |-> "none", tag |-> "date_data", date |-> FormatDate(dt),
                   day |-> FormatDay(dt), description |-> Description(call, dt)],
                  <<>>)

\* strptime(date, "%Y-%m-%d"), then "%d-%m-%Y": both raise ValueError for
\* other text.
DateParses(d) == d.kind \in {"ymd", "dmy"}

\* calendar.py lines 112-177.
FetchHandler(call) ==
    IF ~call.google THEN Stage("cb_plain", Result("error", "unavailable"), <<>>)
    ELSE IF call.credsFail THEN Stage("cb_except", ErrorResult(call.tool), <<>>)
    ELSE IF ~(call.date_query.kind \in {"today", "tomorrow"} \/ DateParses(call.date_query))
         THEN Stage("cb_try", Result("error", "bad_date"), <<>>)
    ELSE IF call.apiFail THEN Stage("cb_except", ErrorResult(call.tool), <<>>)
    ELSE IF call.events = 0 THEN Stage("cb_try", Result("success", "no_events"), <<>>)
    ELSE Stage("cb_try", Result("success", "events"), <<>>)

\* strptime(t, "%I:%M %p") accepts hours 1..12 and minutes 0..59.
TimeParses(t) == t.h \in 1..12 /\ t.m \in 0..59 /\ t.p \in {"AM", "PM"}

\* The minute of the day strptime(t, "%I:%M %p") gives: 12 AM is hour 0,
\* 12 PM is hour 12.
Parse12(t) == ((t.h % 12) + (IF t.p = "PM" THEN 12 ELSE 0)) * 60 + t.m

\* A datetime of the handler, in minutes from day 0, 00:00 IST.
At(day, min) == day * (24 * 60) + min

\* start_dt.isoformat(): the date and the clock time written to the event.
IsoFormat(abs) == [day |-> abs \div (24 * 60), min |-> abs % (24 * 60)]

\* Lines 215-231: the target date.
TargetDay(call) ==
    CASE call.date.kind = "today" -> call.now.day
      [] call.date.kind = "tomorrow" -> call.now.day + 1
      [] OTHER -> call.date.day

\* An overnight test that also moves an end equal to the start.
EndNotAfterStart(startDt, endDt) == endDt <= startDt

\* if end_dt < start_dt
EndBeforeStart(startDt, endDt) == endDt < startDt

\* Lines 242-243: end_dt += timedelta(days=1) for an overnight event.
EndDt(startDt, endDt) ==
    IF EndBeforeStart(startDt, endDt) THEN endDt + 24 * 60 ELSE endDt

\* A past check that looks at the end of the event.
EndInPast(startDt, endDt, now) == endDt < now

\* if start_dt < now
StartInPast(startDt, endDt, now) == startDt < now

\* calendar.py lines 188-283.
CreateHandler(call) ==
    IF ~call.google THEN Stage("cb_plain", Result("error", "unavailable"), <<>>)
    ELSE IF ~call.summary \/ call.start_time = Absent \/ call.end_time = Absent
         THEN Stage("cb_try", Result("error", "missing_arguments"), <<>>)
    ELSE IF call.credsFail THEN Stage("cb_except", ErrorResult(call.tool), <<>>)
    ELSE IF ~(call.date.kind \in {"today", "tomorrow"} \/ DateParses(call.date))
         THEN Stage("cb_try", Result("error", "date_format"), <<>>)
    ELSE IF ~TimeParses(call.start_time) \/ ~TimeParses(call.end_time)
         THEN Stage("cb_try", Result("error", "time_format"), <<>>)
    ELSE
      LET startDt == At(TargetDay(call), Parse12(call.start_time))
          endDt == EndDt(startDt, At(TargetDay(call), Parse12(call.end_time)))
          now == At(call.now.day, call.now.min)
          event == [start |-> IsoFormat(startDt), end |-> IsoFormat(endDt)]
      IN IF StartInPast(startDt, endDt, now)
         THEN Stage("cb_try", Result("error", "in_the_past"), <<>>)
         ELSE IF call.apiFail
              THEN Stage("cb_except", ErrorResult(call.tool), <<event>>)
              ELSE Stage("cb_try", Result("success", "created"), <<event>>)

\* The handler registered for the tool of the call, run to its first await.
RunHandler(call) ==
    CASE call.tool = "get_weather" -> WeatherHandler(call)
      [] call.tool = "get_current_time" -> TimeHandler(call)
      [] call.tool = "get_date_info" -> DateHandler(call)
      [] call.tool = "fetch_calendar_events" -> FetchHandler(call)
      [] call.tool = "create_calendar_event" -> CreateHandler(call)

\* The LLM service calls the handler: it runs to its first
\* await params.result_callback(...).
CallHandler ==
    /\ hpc = "idle"
    /\ LET st == RunHandler(hcall)
       IN /\ hpc' = st.at
          /\ sink' = <<st.result>>
          /\ inserted' = st.bodies
    /\ UNCHANGED <<hcall, registryVars, agentVars, sessionVars>>

\* The awaited result_callback returns: the handler returns.
CallbackReturns ==
    /\ hpc \in {"cb_plain", "cb_try", "cb_except"}
    /\ hpc' = "returned"
    /\ UNCHANGED <<hcall, sink, inserted, registryVars, agentVars, sessionVars>>

\* The awaited result_callback raises: inside the try the except clause
\* calls it again with the error dict; elsewhere the exception leaves the
\* handler.
CallbackRaises ==
    /\ hpc \in {"cb_plain", "cb_try", "cb_except"}
    /\ IF hpc = "cb_try"
       THEN /\ hpc' = "cb_except"
            /\ sink' = Append(sink, ErrorResult(hcall.tool))
       ELSE /\ hpc' = "escaped"
            /\ sink' = sink
    /\ UNCHANGED <<hcall, inserted, registryVars, agentVars, sessionVars>>

HandlerIdle ==
    /\ hpc = "idle"
    /\ sink = <<>>
    /\ inserted = <<>>

----------------------------------------------------------------------------
(* run_bot: agent.py *)

\* Number of run_bot invocations in one run.
MaxBots == 2

Bots == 1..MaxBots

\* A run_bot that was not started: no task, no tools, no functions.
NoBot ==
    [task |-> "none", tools |-> 0, functions |-> EmptyMap, call |-> "none",
     disconnected |-> FALSE]

\* A cancel that reaches the task of every run_bot.
CancelAll(bs, b) ==
    [c \in Bots |->
        IF bs[c].task = "running"
        THEN [bs[c] EXCEPT !.task = "cancelled",
                           !.call = IF @ = "in flight" THEN "cancelled" ELSE @]
        ELSE bs[c]]

\* await task.cancel(): task is the PipelineTask of this run_bot; the
\* pipeline's cancellation ends the tool call the LLM service has in
\* flight.
Cancel(bs, b) ==
    [bs EXCEPT ![b].task = "cancelled",
               ![b].call = IF @ = "in flight" THEN "cancelled" ELSE @]

\* run_bot up to runner.run(task): register_functions(llm) puts the cached
\* handlers into the LLM service, get_tools_schema() hands the cached
\* schema list itself to the context, and the PipelineTask runs.
RunBot(b) ==
    /\ bots[b].task = "none"
    /\ \E listing \in IF NeedsLoad(cache) THEN Listings ELSE {<<>>} :
          EnsureToolsLoaded(cache, listing, files)
    /\ heap' = Allocated(heap)
    /\ bots' = [bots EXCEPT ![b] = [task |-> "running", tools |-> discoveries',
                                    functions |-> cache'.handlers.val,
                                    call |-> "none", disconnected |-> FALSE]]
    /\ UNCHANGED <<files, accesses, reloads, lastRet, handlerVars, sessionVars>>

\* The LLM service of a running pipeline calls one of its registered
\* functions.
DispatchTool(b) ==
    /\ bots[b].task = "running"
    /\ bots[b].call = "none"
    /\ Keys(bots[b].functions) # {}
    /\ bots' = [bots EXCEPT ![b].call = "in flight"]
    /\ UNCHANGED <<registryVars, handlerVars, sessionVars>>

\* The tool call in flight delivers its result: no call is in flight.
ToolDone(b) ==
    /\ bots[b].call = "in flight"
    /\ bots' = [bots EXCEPT ![b].call = "none"]
    /\ UNCHANGED <<registryVars, handlerVars, sessionVars>>

\* on_client_disconnected of the transport of run_bot b.
ClientDisconnected(b) ==
    /\ bots[b].task = "running"
    /\ bots' = [Cancel(bots, b) EXCEPT ![b].disconnected = TRUE]
    /\ UNCHANGED <<registryVars, handlerVars, sessionVars>>

\* No run_bot was started.
AgentIdle == bots = [b \in Bots |-> NoBot]

\* One tool module file as the repository's are: all attributes, one name.
RepoModule == [imp |-> TRUE, missing |-> "none", fn |-> "a", sn |-> "a", create |-> NoCreate]

\* The state after construction: the server and the registry idle.
Init ==
    /\ SessionInit
    /\ files = [f \in Files |-> RepoModule]
    /\ RegistryIdle
    /\ hcall = [tool |-> "get_current_time", tzFail |-> FALSE]
    /\ HandlerIdle
    /\ AgentIdle

----------------------------------------------------------------------------
\* The server as src/server.py runs it.
Next ==
    \/ \E req \in RequestIds : OfferReuse(req)
    \/ \E req \in RequestIds : OfferNew(req)
    \/ \E t \in BagToSet(tasks) : RenegotiateReturn(t)
    \/ \E t \in BagToSet(tasks) : RenegotiateRaise(t)
    \/ \E t \in BagToSet(tasks) : InitializeReturn(t)
    \/ \E t \in BagToSet(tasks) : InitializeRaise(t)
    \/ \E c \in Conns : TransportClose(c)
    \/ \E c \in Conns : HandleDisconnected(c)
    \/ ProcessExit

Spec == Init /\ [][Next]_vars

\* The server with lifespan entered as the application's lifespan context.
NextLifespan ==
    \/ \E req \in RequestIds : OfferReuse(req)
    \/ \E req \in RequestIds : OfferNew(req)
    \/ \E t \in BagToSet(tasks) : RenegotiateReturn(t)
    \/ \E t \in BagToSet(tasks) : RenegotiateRaise(t)
    \/ \E t \in BagToSet(tasks) : InitializeReturn(t)
    \/ \E t \in BagToSet(tasks) : InitializeRaise(t)
    \/ \E c \in Conns : TransportClose(c)
    \/ \E c \in Conns : HandleDisconnected(c)
    \/ LifespanExit
    \/ \E c \in Conns : DisconnectReturn(c)
    \/ \E c \in Conns : DisconnectRaise(c)
    \/ GatherReturn

SpecLifespan == Init /\ [][NextLifespan]_vars

\* The server with handle_disconnected also called directly.
NextHandler ==
    \/ \E req \in RequestIds : OfferReuse(req)
    \/ \E req \in RequestIds : OfferNew(req)
    \/ \E t \in BagToSet(tasks) : RenegotiateReturn(t)
    \/ \E t \in BagToSet(tasks) : RenegotiateRaise(t)
    \/ \E t \in BagToSet(tasks) : InitializeReturn(t)
    \/ \E t \in BagToSet(tasks) : InitializeRaise(t)
    \/ \E c \in Conns : TransportClose(c)
    \/ \E c \in Conns : HandleDisconnected(c)
    \/ \E c \in Conns : DirectRemove(c)

SpecHandler == Init /\ [][NextHandler]_vars

\* The registry's accessors called in any order on any tools directory.
InitRegistry ==
    /\ SessionInit
    /\ files \in [Files -> SourceKinds]
    /\ RegistryIdle
    /\ hcall = [tool |-> "get_current_time", tzFail |-> FALSE]
    /\ HandlerIdle
    /\ AgentIdle

NextRegistry ==
    \/ GetToolsSchema
    \/ RegisterFunctions
    \/ GetAvailableTools

SpecRegistry == InitRegistry /\ [][NextRegistry]_vars

\* The files a developer reloads: modules with one function or two, and a
\* file that does not import.
ReloadKinds ==
    {Broken,
     [imp |-> TRUE, missing |-> "none", fn |-> "a", sn |-> "a", create |-> NoCreate],
     [imp |-> TRUE, missing |-> "none", fn |-> "b", sn |-> "b", create |-> "c"]}

\* The registry with reload_tools, as a developer uses it.
InitReload ==
    /\ SessionInit
    /\ files \in [Files -> ReloadKinds]
    /\ RegistryIdle
    /\ hcall = [tool |-> "get_current_time", tzFail |-> FALSE]
    /\ HandlerIdle
    /\ AgentIdle

NextReload ==
    \/ GetToolsSchema
    \/ RegisterFunctions
    \/ GetAvailableTools
    \/ ReloadTools

SpecReload == InitReload /\ [][NextReload]_vars

\* One call of a tool handler, for every call and environment.
InitTools ==
    /\ SessionInit
    /\ files = [f \in Files |-> RepoModule]
    /\ RegistryIdle
    /\ hcall \in Calls
    /\ HandlerIdle
    /\ AgentIdle

NextTools ==
    \/ CallHandler
    \/ CallbackReturns
    \/ CallbackRaises

SpecTools == InitTools /\ [][NextTools]_vars

\* Several run_bot invocations, their tool calls and client disconnects,
\* with a developer reloading the tools; the tools directory has one
\* module with two functions and files that do not import.
InitAgent ==
    /\ SessionInit
    /\ files = [f \in Files |->
                  IF f = 1
                  THEN [imp |-> TRUE, missing |-> "none", fn |-> "b", sn |-> "b",
                        create |-> "c"]
                  ELSE Broken]
    /\ RegistryIdle
    /\ hcall = [tool |-> "get_current_time", tzFail |-> FALSE]
    /\ HandlerIdle
    /\ AgentIdle

NextAgent ==
    \/ \E b \in Bots : RunBot(b)
    \/ \E b \in Bots : DispatchTool(b)
    \/ \E b \in Bots : ToolDone(b)
    \/ \E b \in Bots : ClientDisconnected(b)
    \/ ReloadTools

SpecAgent == InitAgent /\ [][NextAgent]_vars

----------------------------------------------------------------------------
(* the session registry's properties *)

Live(c) == connState[c] = "active"

\* C1: under every interleaving of offers and "closed" callbacks, no live
\* connection is registered in pcs_map under two different ids, and no two
\* different live sessions carry the same session id.
C1_OneLiveSessionPerId ==
    /\ \A k1, k2 \in Keys(pcs_map) :
          (pcs_map[k1] = pcs_map[k2] /\ Live(pcs_map[k1])) => k1 = k2
    /\ \A c1, c2 \in Conns :
          (handler[c1] /\ handler[c2] /\ Live(c1) /\ Live(c2)
              /\ pc_id[c1] = pc_id[c2]) => c1 = c2

\* Two live sessions are registered while another offer is suspended.
C1_Witness ==
    /\ \E k1, k2 \in Keys(pcs_map) :
          k1 # k2 /\ Live(pcs_map[k1]) /\ Live(pcs_map[k2])
    /\ tasks # EmptyBag

\* C2: an offer that reuses the pc_id the offer before it reused returns
\* that same pc_id, has renegotiated the same connection object, and adds no
\* run_bot task.
C2_ReuseTwiceSameSession ==
    last.branch = "reuse" =>
        /\ last.answer = last.req
        /\ pc_id[last.conn] = last.req
        /\ last.bots = 0
        /\ last.same

\* Two offers in a row have reused the same pc_id.
C2_Witness == last.streak = 2 /\ AllIdle

\* C3: run_bot is added exactly once for every connection offer created and
\* registered, and never by the reuse branch: for every connection the number
\* of run_bot tasks is 1 when offer created its session and 0 otherwise.
C3_OneRuntimePerSession ==
    \A c \in Conns : botScheduled[c] = IF handler[c] THEN 1 ELSE 0

\* A created session has been reused, and another creation has failed.
C3_Witness ==
    /\ last.branch = "reuse"
    /\ botScheduled[last.conn] = 1
    /\ \E c \in Conns : connState[c] = "failed"

\* C4: an offer whose pc_id is not a key of pcs_map registers the new
\* connection under the pc_id of its own answer, never under the pc_id the
\* caller sent; an id no connection reported is never a key of pcs_map.
C4_UnknownIdGetsFreshId ==
    /\ \A f \in ForeignIds : f \notin Keys(pcs_map)
    /\ last.branch = "new" =>
          /\ last.key = pc_id[last.conn]
          /\ last.key = last.answer
          /\ last.key # last.req

\* An offer that carried an id the server never issued has returned.
C4_Witness == last.branch = "new" /\ last.req \in ForeignIds

\* C5: once the "closed" event of a session has been handled, no offer calls
\* renegotiate on that connection.
C5_ClosedNeverRenegotiated ==
    \A t \in BagToSet(tasks) : t.pc = "renegotiate" => ~t.stale

\* C6: once the "closed" event of a session has been handled and no offer is
\* in flight, the session's id is not a key of pcs_map.
C6_ClosedIdStaysAbsent ==
    \A c \in Conns : (Removed(c) /\ AllIdle) => pc_id[c] \notin Keys(pcs_map)

\* C7: handle_disconnected for an id that is not in pcs_map (removed before,
\* or never registered) raises nothing and leaves pcs_map as it was.
C7_RemoveIdempotent ==
    removeLog.hit = "absent" => (~removeLog.raised /\ ~removeLog.changed)

\* A session was removed by its "closed" event and removed a second time.
C7_Witness ==
    /\ removeLog.hit = "absent"
    /\ \E c \in Conns : Removed(c)
    /\ pcs_map # EmptyMap

\* C8: when every gathered disconnect has settled, by returning or by
\* raising, lifespan has cleared pcs_map.
C8_MapClearedAfterAllSettle ==
    (lifespanPc \in {"done", "raised"} /\ pending = {}) => pcs_map = EmptyMap

\* C9: when the exit part of lifespan has completed, pcs_map is empty and
\* every connection that was in pcs_map when it started is closed.
C9_ShutdownLeavesNothing ==
    lifespanPc = "done" =>
        /\ pcs_map = EmptyMap
        /\ \A c \in coros : connState[c] = "closed"

\* The exit part of lifespan has completed for two tracked sessions.
C9_Witness == lifespanPc = "done" /\ Cardinality(coros) >= 2

\* C10: when the server process has exited, the exit part of lifespan has
\* run for the application.
C10_ShutdownHookRunsAtExit == exited => lifespanPc # "serving"

----------------------------------------------------------------------------
(* the tool registry *)

\* The capabilities the sources of directory fs declare: the file, the slot
\* and the declared name of every module that imports and has SCHEMA,
\* handler and FUNCTION_NAME.
Declared(fs) ==
    {[file |-> f, slot |-> "SCHEMA", name |-> fs[f].fn] :
        f \in {g \in Files : fs[g].imp /\ fs[g].missing = "none"}}
    \cup {[file |-> f, slot |-> "CREATE_SCHEMA", name |-> fs[f].create] :
        f \in {g \in Files : fs[g].imp /\ fs[g].missing = "none"
                                /\ fs[g].create # NoCreate}}

\* Two sources, or the two slots of one source, declare the same name.
DuplicateNames(fs) ==
    \E d1, d2 \in Declared(fs) : d1 # d2 /\ d1.name = d2.name

\* Every source's SCHEMA carries the name the source declares.
NamesAgree(fs) == \A f \in Files : fs[f].sn = fs[f].fn

\* discover_tools has run and its result is cached.
Loaded == discoveries > 0 /\ ~NeedsLoad(cache)

\* The attribute that holds the handler of a schema slot.
HandlerAttr(slot) == IF slot = "SCHEMA" THEN "handler" ELSE "CREATE_HANDLER"

\* The schema list has one entry per loaded capability and the handler
\* table has, for exactly the names of the schema list, the handler that
\* the schema's source declares.
OneHandlerPerSchema(fs, schemas, handlers) ==
    /\ Len(schemas) = Cardinality(Declared(fs))
    /\ Keys(handlers) = {schemas[i].name : i \in DOMAIN schemas}
    /\ \A i \in DOMAIN schemas :
          /\ schemas[i].name \in Keys(handlers)
          /\ handlers[schemas[i].name] =
                [file |-> schemas[i].file, attr |-> HandlerAttr(schemas[i].slot)]

\* C11: a discovery over sources that declare one capability name twice
\* does not complete: whenever a discovery has completed and its result is
\* cached, no name was declared twice.
C11_DuplicateNameIsLoadError == Loaded => ~DuplicateNames(files)

\* C12 as stated: for sources with pairwise distinct names, the schema list
\* has one entry per loaded capability and the handler table has exactly
\* one handler for each name in the schema list and no other keys.
C12_DistinctNamesOneHandlerEach ==
    (Loaded /\ ~DuplicateNames(files)) =>
        OneHandlerPerSchema(files, cache.schemas.val, cache.handlers.val)

\* C12: for sources with pairwise distinct names whose SCHEMA carries the
\* declared FUNCTION_NAME, the schema list has one entry per loaded
\* capability, primary and secondary, and the handler table has exactly
\* one handler for each name in the schema list and no other keys.
C12_AgreeingNamesOneHandlerEach ==
    (Loaded /\ ~DuplicateNames(files) /\ NamesAgree(files)) =>
        OneHandlerPerSchema(files, cache.schemas.val, cache.handlers.val)

\* A module with a secondary function and a second module were loaded.
C12_Witness ==
    /\ Loaded
    /\ ~DuplicateNames(files)
    /\ NamesAgree(files)
    /\ Len(cache.schemas.val) = 3

\* The file does not import or lacks SCHEMA, handler or FUNCTION_NAME.
Invalid(src) == ~src.imp \/ src.missing # "none"

\* C13: a source that fails to import or lacks SCHEMA, handler or
\* FUNCTION_NAME contributes no schema, no handler and no module, and
\* every other source has its schema and its module in the result.
C13_InvalidSourceSkipped ==
    Loaded =>
        \A f \in Files :
            IF Invalid(files[f])
            THEN /\ \A i \in DOMAIN cache.schemas.val : cache.schemas.val[i].file # f
                 /\ \A h \in Values(cache.handlers.val) : h.file # f
                 /\ f \notin cache.modules.val
            ELSE /\ \E i \in DOMAIN cache.schemas.val :
                        /\ cache.schemas.val[i].file = f
                        /\ cache.schemas.val[i].slot = "SCHEMA"
                 /\ f \in cache.modules.val

\* A directory with a module that lacks handler and a valid module was
\* discovered.
C13_Witness ==
    /\ Loaded
    /\ \E f \in Files : files[f].missing = "handler"
    /\ \E f \in Files : ~Invalid(files[f])

\* C14: while reload_tools has not been called, discover_tools has run
\* exactly once, in the first accessor call, and every call works on the
\* cached schema list and handler table.
C14_DiscoveredOnceThenCached ==
    (reloads = 0 /\ accesses > 0) =>
        /\ discoveries = 1
        /\ lastRet.ran <=> accesses = 1
        /\ lastRet.schemas = cache.schemas.val
        /\ lastRet.handlers = cache.handlers.val

\* A second accessor call has returned from the cache.
C14_Witness ==
    /\ reloads = 0
    /\ accesses >= 2
    /\ ~lastRet.ran
    /\ Len(lastRet.schemas) > 0

\* C15: once reload_tools has been called, also when it failed part-way,
\* the cache holds a complete schema list and handler table of one
\* discovery pass; it is never empty.
C15_ReloadNeverEmptiesCache == reloads > 0 => ~NeedsLoad(cache)

----------------------------------------------------------------------------
(* the tool handlers *)

\* The call of the handler is over: it returned or an exception left it.
Finished == hpc \in {"returned", "escaped"}

\* C16: when a call of a tool handler is over, params.result_callback was
\* invoked exactly once in it.
C16_CallbackInvokedOnce == Finished => Len(sink) = 1

\* C17: no exception leaves a tool handler, whichever of its statements
\* raised.
C17_NoExceptionEscapes == hpc # "escaped"

\* C18: every dict a tool handler passes to the result callback has a
\* "status" key whose value is "success" or "error".
C18_EveryResultHasStatus ==
    \A i \in DOMAIN sink : sink[i].status \in {"success", "error"}

\* create_calendar_event_handler reached line 239: the libraries are
\* there, the three required arguments too, the credentials loaded, and
\* the date and both times parsed.
StartLocalized(call) ==
    /\ call.tool = "create_calendar_event"
    /\ call.google /\ call.summary /\ ~call.credsFail
    /\ call.start_time # Absent /\ call.end_time # Absent
    /\ call.date.kind # "other"
    /\ TimeParses(call.start_time) /\ TimeParses(call.end_time)

\* C19: when the localized start of the requested event is earlier than
\* now, the first result of the handler is the validation error and
\* events().insert is not executed in that call.
C19_PastStartNeverInserted ==
    (hpc # "idle" /\ StartLocalized(hcall)
       /\ At(TargetDay(hcall), Parse12(hcall.start_time))
            < At(hcall.now.day, hcall.now.min)) =>
        /\ inserted = <<>>
        /\ sink[1] = Result("error", "in_the_past")

\* An event that starts earlier today was refused and the handler returned.
C19_Witness ==
    /\ hpc = "returned"
    /\ StartLocalized(hcall)
    /\ hcall.date.kind = "today"
    /\ Parse12(hcall.start_time) < hcall.now.min
    /\ Parse12(hcall.end_time) > hcall.now.min
    /\ sink = <<Result("error", "in_the_past")>>

\* C20: the event written has its start at the start's clock time on the
\* target date, and its end at the end's clock time, on the next day when
\* the end's clock time is strictly before the start's and on the target
\* date otherwise.
C20_OvernightEndRollsOneDay ==
    inserted # <<>> =>
        LET d == TargetDay(hcall)
            st == Parse12(hcall.start_time)
            et == Parse12(hcall.end_time)
        IN /\ inserted[1].start = [day |-> d, min |-> st]
           /\ inserted[1].end = [day |-> IF et < st THEN d + 1 ELSE d, min |-> et]

\* An event from 11:00 PM to 1:00 AM was written.
C20_Witness ==
    /\ hpc = "returned"
    /\ inserted # <<>>
    /\ hcall.start_time = [h |-> 11, m |-> 0, p |-> "PM"]
    /\ hcall.end_time = [h |-> 1, m |-> 0, p |-> "AM"]
    /\ inserted[1].end.day = inserted[1].start.day + 1

\* C21: a call of fetch_calendar_events_handler with a date_query that is
\* not today, tomorrow, YYYY-MM-DD or DD-MM-YYYY delivers the "couldn't
\* understand that date" error as its result, whatever the other steps of
\* the handler do.
C21_BadDateAlwaysDateError ==
    (hpc # "idle" /\ hcall.tool = "fetch_calendar_events"
       /\ hcall.date_query.kind = "other") =>
        sink[1] = Result("error", "bad_date")

----------------------------------------------------------------------------
(* the session registry, continued *)

\* C25: every key of pcs_map is the pc_id of the connection it maps to.
C25_KeyIsPcIdOfItsConnection ==
    \A k \in Keys(pcs_map) : pc_id[pcs_map[k]] = k

\* Two sessions are registered and a "closed" event has popped a third.
C25_Witness ==
    /\ Cardinality(Keys(pcs_map)) >= 2
    /\ removeLog.hit = "present"

----------------------------------------------------------------------------
(* get_date_info *)

\* The day after and the day before a date, by the lengths of the months.
NextDay(dt) ==
    IF dt.d < DaysInMonth(dt.y, dt.m) THEN [dt EXCEPT !.d = dt.d + 1]
    ELSE IF dt.m < 12 THEN [y |-> dt.y, m |-> dt.m + 1, d |-> 1]
    ELSE [y |-> dt.y + 1, m |-> 1, d |-> 1]

PrevDay(dt) ==
    IF dt.d > 1 THEN [dt EXCEPT !.d = dt.d - 1]
    ELSE IF dt.m > 1 THEN [y |-> dt.y, m |-> dt.m - 1, d |-> DaysInMonth(dt.y, dt.m - 1)]
    ELSE [y |-> dt.y - 1, m |-> 12, d |-> 31]

\* The date n days after dt (before it, for negative n), one day at a time.
RECURSIVE DaysAfter(_, _)
DaysAfter(dt, n) ==
    IF n = 0 THEN dt
    ELSE IF n > 0 THEN DaysAfter(NextDay(dt), n - 1)
    ELSE DaysAfter(PrevDay(dt), n + 1)

\* Date a is earlier than date b.
Earlier(a, b) ==
    \/ a.y < b.y
    \/ a.y = b.y /\ a.m < b.m
    \/ a.y = b.y /\ a.m = b.m /\ a.d < b.d

\* The number of days from date a to date b, negative when b is earlier.
RECURSIVE DaysBetween(_, _)
DaysBetween(a, b) ==
    IF a = b THEN 0
    ELSE IF Earlier(a, b) THEN DaysBetween(NextDay(a), b) + 1
    ELSE DaysBetween(PrevDay(a), b) - 1

\* The weekday of the date n days after dt, counted from 2024-01-10, a
\* Wednesday.
DayNameAfter(dt, n) ==
    DayNames[((2 + DaysBetween([y |-> 2024, m |-> 1, d |-> 10], dt) + n) % 7) + 1]

\* The handler was called with days_from_now and an integer offset and the
\* timezone loaded.
DaysFromNowCall ==
    /\ hpc # "idle"
    /\ hcall.tool = "get_date_info"
    /\ hcall.query_type = "days_from_now"
    /\ hcall.offset.int
    /\ ~hcall.tzFail

\* C24: with days_from_now and integer offset n the handler's result has
\* the date n days after today's date and the weekday name of that date;
\* its description names n days ahead for n > 0 and |n| days ago for
\* n < 0, with that day name and date; from Wednesday 2024-01-10, 5 days
\* give January 15, 2024, a Monday.
C24_DaysFromNowDateAndDay ==
    DaysFromNowCall =>
        LET n == hcall.offset.n
            dt == DaysAfter(hcall.now, n)
            res == sink[1]
        IN /\ res.tag = "date_data"
           /\ res.date = [month |-> MonthNames[dt.m], day |-> dt.d, year |-> dt.y]
           /\ res.day = DayNameAfter(hcall.now, n)
           /\ res.description.day = res.day
           /\ res.description.date = res.date
           /\ n > 0 => (res.description.how = "In n days, it will be"
                          /\ res.description.days = n)
           /\ n < 0 => (res.description.how = "n days ago was"
                          /\ res.description.days = -n)
           /\ (hcall.now = [y |-> 2024, m |-> 1, d |-> 10] /\ n = 5) =>
                 /\ res.date = [month |-> "January", day |-> 15, year |-> 2024]
                 /\ res.day = "Monday"

\* The handler returned the date 3 days before 2024-03-02, across the leap
\* day.
C24_Witness ==
    /\ DaysFromNowCall
    /\ hpc = "returned"
    /\ hcall.now = [y |-> 2024, m |-> 3, d |-> 2]
    /\ hcall.offset.n = -3
    /\ sink = <<[status |-> "none", tag |-> "date_data",
                 date |-> [month |-> "February", day |-> 28, year |-> 2024],
                 day |-> "Wednesday",
                 description |-> [how |-> "n days ago was", days |-> 3,
                                  day |-> "Wednesday",
                                  date |-> [month |-> "February", day |-> 28,
                                            year |-> 2024]]]>>

----------------------------------------------------------------------------
(* run_bot *)

\* What a started run_bot holds: the schema list in its context, the
\* functions registered on its LLM service, and its task and tool call.
Holds(h, bs, b) ==
    [tools |-> h[bs[b].tools], functions |-> bs[b].functions,
     task |-> bs[b].task, call |-> bs[b].call]

C23_DisconnectCancelsOwnTaskOnly ==
    \A b \in Bots :
        /\ bots[b].task = "cancelled" <=> bots[b].disconnected
        /\ bots[b].call = "cancelled" => bots[b].disconnected

\* One session's client disconnected during its tool call while another
\* session's tool call is in flight.
C23_Witness ==
    \E b, c \in Bots :
        /\ bots[b].task = "cancelled" /\ bots[b].call = "cancelled"
        /\ bots[c].task = "running" /\ bots[c].call = "in flight"

====
